---- MODULE Spec2Model ----
(***************************************************************************)
(* Model of the routing agent of the llm_service component                 *)
(* (services/agents/routing_agent.py): run_routing_agent, run_intent and   *)
(* the collaborators they call.                                            *)
(*                                                                         *)
(* Python strings that the code splits or formats are sequences of tokens  *)
(* in which ":" is a token of its own, so "Query:qe1" is                   *)
(* <<"Query", ":", "qe1">>.  A Python dict is a record with one field per  *)
(* key the code ever sets; a key that is not set holds Absent.             *)
(***************************************************************************)
EXTENDS Integers, Sequences, FiniteSets, TLC

\* Bounds of the model.
MaxHistory == 2
NumCalls == 2

----------------------------------------------------------------------------
\* Values

S(x) == <<x>>
Absent == <<"<absent>">>
NoneV == <<"<None>">>
NoneL == <<NoneV>>
EmptyStr == <<>>
LlmNone == "<None>"

Truthy(v) == v # Absent /\ v # NoneV /\ v # EmptyStr

Last(s) == s[Len(s)]

\* AgentCapability values
CHAT == S("Chat")
PLAN == S("Plan")
QUERY == S("Query")
DATABASE == S("Database")
ROUTE == S("Route")

\* CHAT_AI is the key "AIOutput": the record field AIOutput.

EmptyDict ==
  [route |-> Absent, route_name |-> Absent, output |-> Absent,
   query_engine_id |-> Absent, query_references |-> Absent,
   AIOutput |-> Absent, content |-> Absent, dataset |-> Absent,
   resources |-> Absent, plan |-> Absent, agent_logs |-> Absent,
   route_logs |-> Absent, chat |-> Absent]

\* response_data["chat"] holds a reference to the chat_data dict.
ChatRef == S("&chat_data")

NoChatData == [id |-> Absent, history |-> <<>>]

\* The request's user and conversation identity.
UserId == S("u1")
UserEmail == S("u1@example.com")
ChatId == S("chat1")

----------------------------------------------------------------------------
\* str.split(":", 1)

RECURSIVE IndexFrom(_, _, _)
IndexFrom(s, tok, i) ==
  IF i > Len(s) THEN 0
  ELSE IF s[i] = tok THEN i
  ELSE IndexFrom(s, tok, i + 1)

IndexOf(s, tok) == IndexFrom(s, tok, 1)

SplitFirst(s) ==
  LET i == IndexOf(s, ":")
  IN IF i = 0 THEN <<s>>
     ELSE <<SubSeq(s, 1, i - 1), SubSeq(s, i + 1, Len(s))>>

----------------------------------------------------------------------------
\* Registries the dispatch reads (read-only during a dispatch)

AgentsRouting ==
  << [name |-> "Chat", caps |-> {CHAT}],
     [name |-> "Router", caps |-> {ROUTE}],
     [name |-> "Alt", caps |-> {ROUTE, CHAT}] >>

AgentsNoRouting == << [name |-> "Chat", caps |-> {CHAT}] >>

ModelsPlain ==
  << [name |-> "Router", llm_type |-> "llmA"],
     [name |-> "Alt", llm_type |-> LlmNone] >>

ModelsWithDefault == ModelsPlain \o << [name |-> "default", llm_type |-> "llmD"] >>

Registries ==
  { [agents |-> AgentsRouting, models |-> ModelsPlain],
    [agents |-> AgentsRouting, models |-> ModelsWithDefault],
    [agents |-> AgentsNoRouting, models |-> ModelsPlain] }

QueryEngines == << [name |-> S("qe1"), id |-> S("qe1-id")] >>

AgentNames == {"Router", "Alt", "default", "Ghost"}
LlmTypeArgs == {LlmNone, "llmX"}
Prompts == {S("What's the weather")}

NoAgent == "<no agent>"
NoEngine == [name |-> NoneV, id |-> NoneV]

VARIABLES
  registry,            \* agent configuration and Agent records
  history,             \* user_chat.history, the in-memory list
  stored,              \* the persisted history of the conversation
  pc,                  \* position of the run_routing_agent call
  error,               \* the exception that ended the call, if any
  prompt, agent_name, llm_type,   \* arguments / locals of run_routing_agent
  intent_agent,        \* run_intent's agent_name after "default" is resolved
  routes,              \* run_intent's parsed Route: actions
  route, route_logs,   \* run_intent's result
  chat_history_entry,  \* local of run_routing_agent
  query_engine,        \* local of the Query arm
  response,            \* the (route, response_data) returned, response_data part
  chat_data,           \* the conversation snapshot response_data["chat"] refers to
  agent_inputs,        \* run_intent's inputs to the reasoning procedure
  trace,               \* collaborator calls of the current call, in order
  tasks,               \* concurrent run_routing_agent calls on the conversation
  commit_order         \* the concurrent calls in the order they reached line 177

vars == <<registry, history, stored, pc, error, prompt, agent_name, llm_type,
          intent_agent, routes, route, route_logs, chat_history_entry, query_engine,
          response, chat_data, agent_inputs, trace, tasks, commit_order>>

\* state of the concurrent calls
cvars == <<tasks, commit_order>>

\* state of the single sequential call
svars == <<pc, error, prompt, agent_name, llm_type, intent_agent, routes, route,
           route_logs, chat_history_entry, query_engine, response, chat_data,
           agent_inputs, trace>>

Ev(fn, args) == [fn |-> fn, args |-> args]

----------------------------------------------------------------------------
\* Collaborators

\* BaseAgent.get_agents_by_capability(capability).keys(): names in registry order
RECURSIVE NamesWithCap(_, _)
NamesWithCap(agents, cap) ==
  IF agents = <<>> THEN <<>>
  ELSE (IF cap \in Head(agents).caps THEN <<Head(agents).name>> ELSE <<>>)
       \o NamesWithCap(Tail(agents), cap)

GetAgentsByCapability(cap) == NamesWithCap(registry.agents, cap)

\* BaseAgent.get_llm_service_agent(agent_name): fails for an unknown name
HasLlmServiceAgent(name) ==
  \E i \in 1..Len(registry.agents) : registry.agents[i].name = name

\* Agent.find_by_name(name): the record, or None
AgentFindByName(name) ==
  IF \E i \in 1..Len(registry.models) : registry.models[i].name = name
  THEN registry.models[CHOOSE i \in 1..Len(registry.models) :
                         registry.models[i].name = name]
  ELSE [name |-> NoAgent, llm_type |-> LlmNone]

\* QueryEngine.find_by_name(name): the engine, or None
QueryEngineFindByName(name) ==
  IF \E i \in 1..Len(QueryEngines) : QueryEngines[i].name = name
  THEN QueryEngines[CHOOSE i \in 1..Len(QueryEngines) : QueryEngines[i].name = name]
  ELSE NoEngine

\* parse_action_output(header, text): the actions of the lines that begin with
\* the header, in output order; None for an empty output.
RECURSIVE ActionsOf(_, _)
ActionsOf(header, lines) ==
  IF lines = <<>> THEN <<>>
  ELSE (IF Head(lines) # <<>> /\ Head(Head(lines)) = header
        THEN <<Tail(Head(lines))>> ELSE <<>>)
       \o ActionsOf(header, Tail(lines))

ParseActionOutput(header, text) ==
  IF text = <<>> THEN NoneL ELSE ActionsOf(header, text)

\* parse_plan_step(text): the list of (tool, detail) pairs of "N. Use [tool] detail"
ParsePlanStep(text) ==
  LET i == IndexOf(text, "[")
      j == IndexOf(text, "]")
  IN IF i = 0 \/ j = 0 \/ j < i THEN <<>>
     ELSE << <<SubSeq(text, i + 1, j - 1), SubSeq(text, j + 1, Len(text))>> >>

\* UserChat.update_history(custom_entry=entry): append to the in-memory list
UpdateHistory(h, entry) == Append(h, entry)

\* UserChat.get_fields(reformat_datetime=True), with the id added
GetFields(h) == [id |-> ChatId, history |-> h]

----------------------------------------------------------------------------
\* What the reasoning procedure (agent_executor_arun_with_logs) can produce

MarkerRoute == "Route:"

ActionFor(r) == <<"1.", "Use", "[">> \o r \o <<"]", "to answer">>

ClassifiedRoutes ==
  { CHAT, PLAN, ROUTE, QUERY, DATABASE,
    <<"Query", ":", "qe1">>, <<"Query", ":", "nope">>,
    <<"Database", ":", "sales">>, <<"Foo", ":", "bar">> }

RouteLines == { <<MarkerRoute>> \o ActionFor(r) : r \in ClassifiedRoutes }
MalformedLine == <<MarkerRoute, "1.", "no route here">>
NoiseLine == <<"Thought:", "thinking">>
FirstLines == RouteLines \cup {MalformedLine, NoiseLine}
LaterLines == { <<MarkerRoute>> \o ActionFor(CHAT), NoiseLine }

ExecutorOutputs ==
  {<<>>} \cup { <<l>> : l \in FirstLines }
         \cup { <<l, m>> : l \in FirstLines, m \in LaterLines }

RouteTrace == S("route-trace")

\* (output, agent_logs) pairs, and a raised exception
ExecutorResults ==
  { [ok |-> TRUE, output |-> o, logs |-> IF o = <<>> THEN EmptyStr ELSE RouteTrace] :
      o \in ExecutorOutputs }
  \cup { [ok |-> TRUE, output |-> <<NoiseLine>>, logs |-> EmptyStr],
         [ok |-> FALSE, output |-> <<>>, logs |-> EmptyStr] }

----------------------------------------------------------------------------
\* get_dispatch_prompt

\* llm_service_agent.get_query_engines(agent_name): (name, description) topics
AgentQueryEngines(name) ==
  IF name = "Router"
    THEN << [name |-> "qe1", description |-> "medical documents"],
            [name |-> "qe2", description |-> "travel policies"] >>
  ELSE IF name = "Alt"
    THEN << [name |-> "qe1", description |-> "medical documents"] >>
  ELSE <<>>

\* llm_service_agent.get_datasets(agent_name).items(): (name, config) in dict order
AgentDatasets(name) ==
  IF name = "Router"
    THEN << [name |-> "sales", description |-> "sales figures"] >>
  ELSE <<>>

\* lines 263-271: the fixed capabilities
FixedIntentLines ==
  << "- ", CHAT[1], " to to perform generic chat conversation.", "\n",
     "- ", PLAN[1], " to compose, generate or create a plan.", "\n" >>

\* lines 276-280
RECURSIVE QueryEngineLines(_)
QueryEngineLines(qes) ==
  IF qes = <<>> THEN <<>>
  ELSE << "- [", QUERY[1], ":", Head(qes).name, "]",
          " to run a query on a search engine for information (not raw data)",
          " on the topics of ", Head(qes).description, " \n" >>
       \o QueryEngineLines(Tail(qes))

\* lines 285-290
RECURSIVE DatasetLines(_)
DatasetLines(dss) ==
  IF dss = <<>> THEN <<>>
  ELSE << "- [", DATABASE[1], ":", Head(dss).name, "]",
          " to use SQL to retrieve rows of data from a database for data ",
          "related to these areas: ", Head(dss).description, " \n" >>
       \o DatasetLines(Tail(dss))

\* lines 262-290: intent_list_str
IntentListStr(name) ==
  FixedIntentLines \o QueryEngineLines(AgentQueryEngines(name))
                   \o DatasetLines(AgentDatasets(name))

PromptHead ==
  "The AI Routing Assistant has access to the following routes for a user prompt:\n    "
PromptTail == "\n    Choose one route based on the question below:\n    "

\* lines 292-299: the string literal is not an f-string, so the text
\* "{intent_list_str}" is returned as written
GetDispatchPrompt(name) == <<PromptHead, "{intent_list_str}", PromptTail>>

\* lines 230-233: agent_inputs
AgentInputs(name, p, chat_history) ==
  [input |-> GetDispatchPrompt(name) \o p, chat_history |-> <<>>]

NoInputs == [input |-> EmptyStr, chat_history |-> <<>>]

----------------------------------------------------------------------------
\* run_intent

\* lines 209-217: the agent run_intent classifies with, or NoAgent on failure
ResolveIntentAgent(name) ==
  LET routing_agents == GetAgentsByCapability(ROUTE)
      resolved == IF name = "default"
                  THEN (IF routing_agents = <<>> THEN NoAgent ELSE routing_agents[1])
                  ELSE name
  IN IF resolved # NoAgent /\ HasLlmServiceAgent(resolved) THEN resolved ELSE NoAgent

\* line 242: parse_action_output("Route:", output) or []
RoutesOf(output) ==
  LET parsed == ParseActionOutput(MarkerRoute, output)
  IN IF parsed = NoneL THEN <<>> ELSE parsed

\* line 251 taking the last action
LastRoute(rs) == rs[Len(rs)]

\* line 251: the action run_intent takes its route from
BestRoute(rs) == rs[1]

\* lines 242-254 without the fallback of lines 246-247: routes[0] raises
IntentResultNoFallback(res) ==
  LET rs == RoutesOf(res.output)
      steps == IF rs = <<>> THEN <<>> ELSE ParsePlanStep(BestRoute(rs))
  IN IF ~res.ok \/ steps = <<>>
       THEN [ok |-> FALSE, route |-> Absent, logs |-> Absent]
       ELSE [ok |-> TRUE, route |-> steps[1][1], logs |-> res.logs]

\* lines 242-254: [ok, route, logs]; ok = FALSE is an exception
IntentResult(res) ==
  LET rs == RoutesOf(res.output)
  IN IF ~res.ok THEN [ok |-> FALSE, route |-> Absent, logs |-> Absent]
     ELSE IF rs = <<>> \/ Len(rs) = 0
       THEN [ok |-> TRUE, route |-> CHAT, logs |-> res.logs]
     ELSE LET steps == ParsePlanStep(BestRoute(rs))
          IN IF steps = <<>>
             THEN [ok |-> FALSE, route |-> Absent, logs |-> Absent]
             ELSE [ok |-> TRUE, route |-> steps[1][1], logs |-> res.logs]

----------------------------------------------------------------------------
\* run_routing_agent: from the return of run_intent to the awaited handler

\* lines 61-62
RouteParts(r) == SplitFirst(r)
RouteType(r) == RouteParts(r)[1]

\* lines 65-69
DefaultEntry(r) == [EmptyDict EXCEPT !.route = RouteType(r), !.route_name = r]

\* lines 76-79
ResolveLlmType(arg, routing_agent) ==
  IF arg = LlmNone THEN routing_agent.llm_type ELSE arg

\* lines 84, 112, 140, 158: the arm of the if/elif chain
DispatchArm(route_type) ==
  IF route_type = QUERY THEN "query"
  ELSE IF route_type = DATABASE THEN "database"
  ELSE IF route_type = PLAN THEN "plan"
  ELSE "chat"

\* lines 86, 115: route_parts[1] exists
HasTarget(r) == Len(RouteParts(r)) >= 2

\* lines 71-160 up to the await: the error raised, or "" when a handler is awaited
PreDispatchError(r, name, llmArg) ==
  LET routing_agent == AgentFindByName(name)
      llm == ResolveLlmType(llmArg, routing_agent)
      arm == DispatchArm(RouteType(r))
  IN IF routing_agent.name = NoAgent THEN "RuntimeError: cannot find model"
     ELSE IF llm = LlmNone \/ llm = "" THEN "RuntimeError: llm_type not set"
     ELSE IF arm \in {"query", "database"} /\ ~HasTarget(r) THEN "IndexError"
     ELSE ""

\* the handler call made at the await of the chosen arm
HandlerCall(r, llm, p) ==
  LET arm == DispatchArm(RouteType(r))
  IN IF arm = "query"
       THEN Ev("query_generate",
               <<UserId, p, QueryEngineFindByName(RouteParts(r)[2]).name, S(llm)>>)
     ELSE IF arm = "database"
       THEN Ev("run_db_agent", <<p, S(llm), RouteParts(r)[2], UserEmail>>)
     ELSE IF arm = "plan"
       THEN Ev("agent_plan", <<S("Plan"), p, UserId>>)
     ELSE Ev("run_agent", <<S("Chat"), p>>)

----------------------------------------------------------------------------
\* run_routing_agent: the arms

\* lines 101-109: response_data, which is also the history entry
QueryResponse(r, result, references) ==
  [EmptyDict EXCEPT !.route = RouteType(r),
                    !.route_name = <<"Query Engine: ">> \o RouteParts(r)[2],
                    !.output = result.response,
                    !.query_engine_id = result.query_engine_id,
                    !.query_references = references,
                    !.AIOutput = result.response]

DbFound == S("Here is the database query result in the attached resource.")
DbNotFound == S("Unable to find the query result from the database.")

\* lines 123-127 testing only that the key is present
DbResponseOutputKeyOnly(db_result) ==
  IF db_result.data # Absent THEN DbFound ELSE DbNotFound

\* lines 123-127
DbResponseOutput(db_result) ==
  IF Truthy(db_result.data) THEN DbFound ELSE DbNotFound

\* lines 129-137: response_data, which is also the history entry
DbResponse(r, db_result) ==
  [EmptyDict EXCEPT !.route = RouteType(r),
                    !.route_name = <<"Database Query: ">> \o RouteParts(r)[2],
                    !.AIOutput = DbResponseOutput(db_result),
                    !.content = DbResponseOutput(db_result),
                    !.dataset = RouteParts(r)[2],
                    !.resources = db_result.resources]

\* lines 146-147
PlanEntry(entry, output, plan_data) ==
  [entry EXCEPT !.AIOutput = output, !.plan = plan_data]

\* lines 150-155
PlanResponse(r, output, plan_data) ==
  [EmptyDict EXCEPT !.route = RouteType(r), !.route_name = PLAN,
                    !.content = output, !.plan = plan_data]

\* line 161
ChatEntry(entry, output) == [entry EXCEPT !.AIOutput = output]

\* lines 162-166
ChatResponse(output) ==
  [EmptyDict EXCEPT !.route = CHAT, !.route_name = CHAT, !.content = output]

\* lines 168-174, applied to the entry and to response_data
WithLogs(d, agent_logs, rlogs) ==
  LET d1 == IF Truthy(agent_logs) THEN [d EXCEPT !.agent_logs = agent_logs] ELSE d
  IN IF Truthy(rlogs) THEN [d1 EXCEPT !.route_logs = rlogs] ELSE d1

\* line 177 with a second call added
AppendTurnTwice(h, entry) == UpdateHistory(UpdateHistory(h, entry), entry)

\* line 177: user_chat.update_history(custom_entry=chat_history_entry)
AppendTurn(h, entry) == UpdateHistory(h, entry)

\* an exception leaves run_routing_agent: nothing is returned
Raised(err, h, st, entry, calls) ==
  [error |-> err, history |-> h, stored |-> st, entry |-> entry,
   chat_data |-> NoChatData, response |-> EmptyDict, calls |-> calls]

\* lines 176-186 with the snapshot taken before the entry is appended
CommitTurnSnapshotFirst(h, st, entry, resp, aliased, saveOk, deep) ==
  LET h1 == AppendTurn(h, entry)
      entry2 == IF aliased THEN [entry EXCEPT !.chat = ChatRef] ELSE entry
      h2 == [h1 EXCEPT ![Len(h1)] = entry2]
  IN IF ~saveOk
       THEN Raised("save", h1, st, entry,
                   <<Ev("get_fields", <<>>), Ev("update_history", <<>>),
                     Ev("save", <<>>)>>)
     ELSE [error |-> "", history |-> h2, stored |-> h1, entry |-> entry2,
           chat_data |-> GetFields(h),
           response |-> [resp EXCEPT !.chat = ChatRef],
           calls |-> <<Ev("get_fields", <<>>), Ev("update_history", <<>>),
                       Ev("save", <<>>)>>]

\* lines 176-186 with save() called before update_history()
CommitTurnSaveFirst(h, st, entry, resp, aliased, saveOk, deep) ==
  LET h1 == AppendTurn(h, entry)
      entry2 == IF aliased THEN [entry EXCEPT !.chat = ChatRef] ELSE entry
      h2 == [h1 EXCEPT ![Len(h1)] = entry2]
  IN IF ~saveOk
       THEN Raised("save", h, st, entry, <<Ev("save", <<>>)>>)
     ELSE [error |-> "", history |-> h2, stored |-> h, entry |-> entry2,
           chat_data |-> GetFields(IF deep THEN h1 ELSE h2),
           response |-> [resp EXCEPT !.chat = ChatRef],
           calls |-> <<Ev("save", <<>>), Ev("update_history", <<>>),
                       Ev("get_fields", <<>>)>>]

\* lines 176-186.
\* aliased: chat_history_entry and response_data are one dict (lines 108, 137),
\*   so line 181 also sets "chat" on the entry held in the history.
\* deep: get_fields() copies the entries instead of sharing them.
CommitTurn(h, st, entry, resp, aliased, saveOk, deep) ==
  LET h1 == AppendTurn(h, entry)
      entry2 == IF aliased THEN [entry EXCEPT !.chat = ChatRef] ELSE entry
      h2 == [h1 EXCEPT ![Len(h1)] = entry2]
  IN IF ~saveOk
       THEN Raised("save", h1, st, entry,
                   <<Ev("update_history", <<>>), Ev("save", <<>>)>>)
     ELSE [error |-> "", history |-> h2, stored |-> h1, entry |-> entry2,
           chat_data |-> GetFields(IF deep THEN h1 ELSE h2),
           response |-> [resp EXCEPT !.chat = ChatRef],
           calls |-> <<Ev("update_history", <<>>), Ev("save", <<>>),
                       Ev("get_fields", <<>>)>>]

\* the tail of run_routing_agent run in a finally block: the turn is committed
\* although the handler raised
FinishCommitsOnError(h, st, entry, resp, aliased, handlerOk, saveOk, deep) ==
  IF ~handlerOk
    THEN [CommitTurn(h, st, entry, resp, aliased, saveOk, deep)
            EXCEPT !.error = "handler", !.response = EmptyDict]
    ELSE CommitTurn(h, st, entry, resp, aliased, saveOk, deep)

\* lines 168-186 after the awaited handler: its exception propagates, otherwise
\* the turn is committed and the response returned
Finish(h, st, entry, resp, aliased, handlerOk, saveOk, deep) ==
  IF ~handlerOk
    THEN Raised("handler", h, st, entry, <<>>)
    ELSE CommitTurn(h, st, entry, resp, aliased, saveOk, deep)

----------------------------------------------------------------------------
\* What the handlers can return

QueryResults ==
  { [ok |-> TRUE, response |-> S("Take aspirin"), references |-> S("refs")],
    [ok |-> FALSE, response |-> Absent, references |-> Absent] }

DbResults ==
  { [ok |-> TRUE, data |-> Absent, resources |-> S("no-resources"), logs |-> EmptyStr],
    [ok |-> TRUE, data |-> EmptyStr, resources |-> S("no-resources"), logs |-> S("sql-log")],
    [ok |-> TRUE, data |-> S("rows"), resources |-> S("sheet"), logs |-> S("sql-log")],
    [ok |-> FALSE, data |-> Absent, resources |-> Absent, logs |-> Absent] }

PlanResults ==
  { [ok |-> TRUE, output |-> S("plan-out"), plan_data |-> S("plan1")],
    [ok |-> FALSE, output |-> Absent, plan_data |-> Absent] }

ChatResults ==
  { [ok |-> TRUE, output |-> S("chat-out")],
    [ok |-> FALSE, output |-> Absent] }

----------------------------------------------------------------------------
\* The state machine of one conversation object

HandlerPcs == {"query", "database", "plan", "chat"}

CallIds == 1..NumCalls

\* a run_routing_agent coroutine that has not been started
IdleCall ==
  [pc |-> "idle", error |-> "", prompt |-> EmptyStr, llm_type |-> LlmNone,
   chat_history |-> <<>>, route |-> Absent, route_logs |-> Absent,
   entry |-> EmptyDict, query_engine |-> NoEngine, response |-> EmptyDict,
   chat_data |-> NoChatData]

Init ==
  /\ registry \in Registries
  /\ history = <<>>
  /\ stored = <<>>
  /\ pc = "idle"
  /\ error = ""
  /\ prompt = EmptyStr
  /\ agent_name = ""
  /\ llm_type = LlmNone
  /\ intent_agent = NoAgent
  /\ routes = <<>>
  /\ route = Absent
  /\ route_logs = Absent
  /\ chat_history_entry = EmptyDict
  /\ query_engine = NoEngine
  /\ response = EmptyDict
  /\ chat_data = NoChatData
  /\ agent_inputs = NoInputs
  /\ trace = <<>>
  /\ tasks = [c \in CallIds |-> IdleCall]
  /\ commit_order = <<>>

\* run_routing_agent is called; it runs into run_intent up to the await of the
\* reasoning procedure (lines 53-55, 205-237).
Call(p, name, llmArg) ==
  /\ pc \in {"idle", "done", "failed"}
  /\ Len(history) < MaxHistory
  /\ prompt' = p
  /\ agent_name' = name
  /\ llm_type' = llmArg
  /\ intent_agent' = ResolveIntentAgent(name)
  /\ IF ResolveIntentAgent(name) = NoAgent
       THEN /\ pc' = "failed"
            /\ error' = "run_intent"
            /\ trace' = <<Ev("run_intent", <<S(name), p>>)>>
       ELSE /\ pc' = "intent"
            /\ error' = ""
            /\ trace' = <<Ev("run_intent", <<S(name), p>>),
                          Ev("agent_executor", <<S(ResolveIntentAgent(name))>>)>>
  /\ routes' = <<>>
  /\ route' = Absent
  /\ route_logs' = Absent
  /\ chat_history_entry' = EmptyDict
  /\ query_engine' = NoEngine
  /\ response' = EmptyDict
  /\ chat_data' = NoChatData
  /\ agent_inputs' = IF ResolveIntentAgent(name) = NoAgent THEN NoInputs
                     ELSE AgentInputs(ResolveIntentAgent(name), p, history)
  /\ UNCHANGED <<registry, history, stored, cvars>>

\* The reasoning procedure returns (or raises); run_intent finishes (lines
\* 239-254) and run_routing_agent runs to the await of its handler (57-160).
IntentReturn(res) ==
  /\ pc = "intent"
  /\ LET ir == IntentResult(res)
         perr == PreDispatchError(ir.route, agent_name, llm_type)
         llm == ResolveLlmType(llm_type, AgentFindByName(agent_name))
     IN /\ routes' = IF res.ok THEN RoutesOf(res.output) ELSE <<>>
        /\ route' = ir.route
        /\ route_logs' = ir.logs
        /\ IF ~ir.ok
             THEN /\ pc' = "failed"
                  /\ error' = "run_intent"
                  /\ UNCHANGED <<chat_history_entry, llm_type, query_engine, trace>>
           ELSE IF perr # ""
             THEN /\ pc' = "failed"
                  /\ error' = perr
                  /\ chat_history_entry' = DefaultEntry(ir.route)
                  /\ trace' = Append(trace, Ev("Agent.find_by_name", <<S(agent_name)>>))
                  /\ UNCHANGED <<llm_type, query_engine>>
           ELSE /\ pc' = DispatchArm(RouteType(ir.route))
                /\ error' = ""
                /\ chat_history_entry' = DefaultEntry(ir.route)
                /\ llm_type' = llm
                /\ query_engine' =
                     IF DispatchArm(RouteType(ir.route)) = "query"
                     THEN QueryEngineFindByName(RouteParts(ir.route)[2])
                     ELSE NoEngine
                /\ trace' = trace \o <<Ev("Agent.find_by_name", <<S(agent_name)>>),
                                       HandlerCall(ir.route, llm, prompt)>>
  /\ UNCHANGED <<registry, history, stored, prompt, agent_name, intent_agent,
                 response, chat_data, agent_inputs, cvars>>

\* The rest of run_routing_agent once the handler has returned or raised
Complete(entry, resp, aliased, handlerOk, saveOk, deep) ==
  LET f == Finish(history, stored, entry, resp, aliased, handlerOk, saveOk, deep)
  IN /\ pc' = IF f.error = "" THEN "done" ELSE "failed"
     /\ error' = f.error
     /\ history' = f.history
     /\ stored' = f.stored
     /\ chat_history_entry' = f.entry
     /\ response' = f.response
     /\ chat_data' = f.chat_data
     /\ trace' = trace \o f.calls
     /\ routes' = <<>>
     /\ UNCHANGED <<registry, prompt, agent_name, llm_type, intent_agent, route,
                    route_logs, query_engine, agent_inputs, cvars>>

\* query_generate returns (lines 92-109, 168-186)
QueryReturn(res, saveOk, deep) ==
  /\ pc = "query"
  /\ LET ok == res.ok /\ query_engine # NoEngine
         result == [response |-> res.response, query_engine_id |-> query_engine.id]
         d == WithLogs(QueryResponse(route, result, res.references), NoneV, route_logs)
     IN Complete(d, d, TRUE, ok, saveOk, deep)

\* run_db_agent returns (lines 119-137, 168-186)
DbReturn(res, saveOk, deep) ==
  /\ pc = "database"
  /\ LET d == WithLogs(DbResponse(route, res), res.logs, route_logs)
     IN Complete(d, d, TRUE, res.ok, saveOk, deep)

\* agent_plan returns (lines 142-155, 168-186)
PlanReturn(res, saveOk) ==
  /\ pc = "plan"
  /\ Complete(WithLogs(PlanEntry(chat_history_entry, res.output, res.plan_data),
                       res.output, route_logs),
              WithLogs(PlanResponse(route, res.output, res.plan_data),
                       res.output, route_logs),
              FALSE, res.ok, saveOk, FALSE)

\* run_agent returns (lines 160-166, 168-186)
ChatReturn(res, saveOk) ==
  /\ pc = "chat"
  /\ Complete(WithLogs(ChatEntry(chat_history_entry, res.output), NoneV, route_logs),
              WithLogs(ChatResponse(res.output), NoneV, route_logs),
              FALSE, res.ok, saveOk, FALSE)

Next ==
  \/ \E p \in Prompts, name \in AgentNames, llmArg \in LlmTypeArgs : Call(p, name, llmArg)
  \/ \E res \in ExecutorResults : IntentReturn(res)
  \/ \E res \in QueryResults, saveOk \in BOOLEAN, deep \in BOOLEAN :
       QueryReturn(res, saveOk, deep)
  \/ \E res \in DbResults, saveOk \in BOOLEAN, deep \in BOOLEAN :
       DbReturn(res, saveOk, deep)
  \/ \E res \in PlanResults, saveOk \in BOOLEAN : PlanReturn(res, saveOk)
  \/ \E res \in ChatResults, saveOk \in BOOLEAN : ChatReturn(res, saveOk)

Spec == Init /\ [][Next]_vars

----------------------------------------------------------------------------
\* Concurrent run_routing_agent calls that share one UserChat object.  A
\* coroutine is suspended only at its awaits: the reasoning procedure inside
\* run_intent (line 236) and the handler of its arm (lines 92, 119, 142, 160).

ConcRegistry == [agents |-> AgentsRouting, models |-> ModelsPlain]
ConcAgentName == "Router"

ConcRoutes ==
  { <<"Query", ":", "qe1">>, <<"Database", ":", "sales">>, PLAN }

ConcExecutorResults ==
  { [ok |-> TRUE, output |-> << <<MarkerRoute>> \o ActionFor(r) >>, logs |-> RouteTrace] :
      r \in ConcRoutes }
  \cup { [ok |-> TRUE, output |-> <<NoiseLine>>, logs |-> EmptyStr],
         [ok |-> FALSE, output |-> <<>>, logs |-> EmptyStr] }

ConcDbResults ==
  { [ok |-> TRUE, data |-> S("rows"), resources |-> S("sheet"), logs |-> S("sql-log")],
    [ok |-> FALSE, data |-> Absent, resources |-> Absent, logs |-> Absent] }

InitConc ==
  /\ Init
  /\ registry = ConcRegistry

\* lines 53-55, 205-237 of one coroutine
CCall(c, p) ==
  /\ tasks[c].pc = "idle"
  /\ tasks' = [tasks EXCEPT ![c] =
       [IdleCall EXCEPT
          !.pc = IF ResolveIntentAgent(ConcAgentName) = NoAgent THEN "failed" ELSE "intent",
          !.error = IF ResolveIntentAgent(ConcAgentName) = NoAgent THEN "run_intent" ELSE "",
          !.prompt = p,
          !.chat_history = history]]
  /\ UNCHANGED <<registry, history, stored, commit_order, svars>>

\* lines 239-254 and 57-160 of one coroutine
CIntentReturn(c, res) ==
  /\ tasks[c].pc = "intent"
  /\ LET ir == IntentResult(res)
         perr == PreDispatchError(ir.route, ConcAgentName, LlmNone)
         llm == ResolveLlmType(LlmNone, AgentFindByName(ConcAgentName))
     IN tasks' = [tasks EXCEPT ![c] =
          IF ~ir.ok
            THEN [@ EXCEPT !.pc = "failed", !.error = "run_intent"]
          ELSE IF perr # ""
            THEN [@ EXCEPT !.pc = "failed", !.error = perr, !.route = ir.route,
                           !.route_logs = ir.logs, !.entry = DefaultEntry(ir.route)]
          ELSE [@ EXCEPT !.pc = DispatchArm(RouteType(ir.route)),
                         !.route = ir.route,
                         !.route_logs = ir.logs,
                         !.entry = DefaultEntry(ir.route),
                         !.llm_type = llm,
                         !.query_engine =
                            IF DispatchArm(RouteType(ir.route)) = "query"
                            THEN QueryEngineFindByName(RouteParts(ir.route)[2])
                            ELSE NoEngine]]
  /\ UNCHANGED <<registry, history, stored, commit_order, svars>>

\* lines 168-186 of one coroutine: no await, so they run as one step
CComplete(c, entry, resp, aliased, handlerOk, saveOk, deep) ==
  LET f == Finish(history, stored, entry,
                  resp, aliased, handlerOk, saveOk, deep)
  IN /\ history' = f.history
     /\ stored' = f.stored
     /\ tasks' = [tasks EXCEPT ![c] =
          [@ EXCEPT !.pc = IF f.error = "" THEN "done" ELSE "failed",
                    !.error = f.error,
                    !.entry = f.entry,
                    !.response = f.response,
                    !.chat_data = f.chat_data]]
     /\ commit_order' = IF f.calls = <<>> THEN commit_order
                        ELSE Append(commit_order, c)
     /\ UNCHANGED <<registry, svars>>

CQueryReturn(c, res, saveOk, deep) ==
  /\ tasks[c].pc = "query"
  /\ LET t == tasks[c]
         ok == res.ok /\ t.query_engine # NoEngine
         result == [response |-> res.response, query_engine_id |-> t.query_engine.id]
         d == WithLogs(QueryResponse(t.route, result, res.references), NoneV, t.route_logs)
     IN CComplete(c, d, d, TRUE, ok, saveOk, deep)

CDbReturn(c, res, saveOk, deep) ==
  /\ tasks[c].pc = "database"
  /\ LET t == tasks[c]
         d == WithLogs(DbResponse(t.route, res), res.logs, t.route_logs)
     IN CComplete(c, d, d, TRUE, res.ok, saveOk, deep)

CPlanReturn(c, res, saveOk) ==
  /\ tasks[c].pc = "plan"
  /\ LET t == tasks[c]
     IN CComplete(c,
          WithLogs(PlanEntry(t.entry, res.output, res.plan_data), res.output, t.route_logs),
          WithLogs(PlanResponse(t.route, res.output, res.plan_data), res.output,
                   t.route_logs),
          FALSE, res.ok, saveOk, FALSE)

CChatReturn(c, res, saveOk) ==
  /\ tasks[c].pc = "chat"
  /\ LET t == tasks[c]
     IN CComplete(c,
          WithLogs(ChatEntry(t.entry, res.output), NoneV, t.route_logs),
          WithLogs(ChatResponse(res.output), NoneV, t.route_logs),
          FALSE, res.ok, saveOk, FALSE)

NextConc ==
  \/ \E c \in CallIds, p \in Prompts : CCall(c, p)
  \/ \E c \in CallIds, res \in ConcExecutorResults : CIntentReturn(c, res)
  \/ \E c \in CallIds, res \in QueryResults, saveOk \in BOOLEAN, deep \in BOOLEAN :
       CQueryReturn(c, res, saveOk, deep)
  \/ \E c \in CallIds, res \in ConcDbResults, saveOk \in BOOLEAN, deep \in BOOLEAN :
       CDbReturn(c, res, saveOk, deep)
  \/ \E c \in CallIds, res \in PlanResults, saveOk \in BOOLEAN : CPlanReturn(c, res, saveOk)
  \/ \E c \in CallIds, res \in ChatResults, saveOk \in BOOLEAN : CChatReturn(c, res, saveOk)

SpecConc == InitConc /\ [][NextConc]_vars

TypeOK ==
  /\ pc \in {"idle", "intent", "done", "failed"} \cup HandlerPcs
  /\ Len(history) <= MaxHistory
  /\ Len(stored) <= Len(history)

----------------------------------------------------------------------------
\* Properties

StripChat(d) == [d EXCEPT !.chat = Absent]

Called(fn) == \E i \in 1..Len(trace) : trace[i].fn = fn

\* C1: whenever the reasoning procedure returns an output in which
\* parse_action_output finds no Route: action (None or an empty list),
\* run_intent returns the route Chat together with the captured agent logs
\* and raises no error.
C1_NoRouteFallsBackToChat ==
  [][(pc = "intent") =>
       \A res \in ExecutorResults :
         (/\ res.ok
          /\ ParseActionOutput(MarkerRoute, res.output) \in {NoneL, <<>>}
          /\ IntentReturn(res))
         => (/\ route' = CHAT
             /\ route_logs' = res.logs
             /\ error' # "run_intent")]_vars

C1_Witness ==
  /\ pc = "chat"
  /\ routes = <<>>
  /\ route = CHAT
  /\ route_logs = RouteTrace

\* C2: when the classified route is Query:<name> and no query engine of that
\* name is registered, the dispatch fails before query_generate is invoked.
C2_UnregisteredEngineFailsBeforeGenerate ==
  (/\ route # Absent
   /\ DispatchArm(RouteType(route)) = "query"
   /\ HasTarget(route)
   /\ QueryEngineFindByName(RouteParts(route)[2]) = NoEngine)
  => ~Called("query_generate")

\* C3: every successful call appends exactly one entry to the conversation's
\* history: the entries present before the call keep their value and position,
\* the new last entry is the call's entry, and a step that does not end a call
\* leaves the history alone.
C3_EachSuccessfulCallAppendsOne ==
  [][/\ (pc' = "done") =>
          /\ Len(history') = Len(history) + 1
          /\ SubSeq(history', 1, Len(history)) = history
          /\ Last(history') = chat_history_entry'
          /\ Len(stored') = Len(history')
          /\ SubSeq(stored', 1, Len(history)) = history
          /\ Last(stored') = StripChat(chat_history_entry')
     /\ (pc' \notin {"done", "failed"}) => history' = history]_vars

C3_Witness ==
  /\ pc = "done"
  /\ Len(history) = 2
  /\ history[1].chat = ChatRef
  /\ history[1] # history[2]

\* C4: a call that ends in an error returns no response envelope and leaves the
\* persisted history as it was; the persisted history changes only in the step
\* that ends a call successfully.
C4_FailedCallWritesNothing ==
  [][/\ (pc' = "failed") => (stored' = stored /\ response' = EmptyDict)
     /\ (stored' # stored) => (pc' = "done")]_vars

C4_Witness ==
  /\ pc = "failed"
  /\ error = "save"
  /\ Len(history) = Len(stored) + 1

\* C5: on every route the response of a successful call carries route,
\* route_name and chat, and chat is the snapshot taken after this call's entry
\* was appended and saved: its history is the persisted history and ends with
\* this call's entry.
C5_ResponseCarriesCommittedSnapshot ==
  (pc = "done") =>
    /\ response.route # Absent
    /\ response.route_name # Absent
    /\ response.chat = ChatRef
    /\ chat_data.id = ChatId
    /\ Len(chat_data.history) = Len(stored)
    /\ Len(stored) >= 1
    /\ SubSeq(chat_data.history, 1, Len(stored) - 1) = SubSeq(stored, 1, Len(stored) - 1)
    /\ StripChat(Last(chat_data.history)) = Last(stored)
    /\ StripChat(Last(chat_data.history)) = StripChat(chat_history_entry)

C5_Witness ==
  /\ pc = "done"
  /\ route = <<"Foo", ":", "bar">>
  /\ Len(chat_data.history) = 2

C7_FirstRouteWins ==
  (Len(routes) >= 2 /\ route # Absent) =>
    LET steps == ParsePlanStep(routes[1])
    IN steps # <<>> /\ route = steps[1][1]

C7_Witness ==
  /\ pc = "query"
  /\ Len(routes) = 2
  /\ route = <<"Query", ":", "qe1">>
  /\ ParsePlanStep(routes[2])[1][1] = CHAT

\* C8: a route of kind Query or Database without a :<target> part does not
\* fail; the chat handler runs and one Chat turn is committed.
C8_UnqualifiedRouteDegradesToChat ==
  (route \in {QUERY, DATABASE} /\ pc \notin {"idle", "intent"})
  => /\ error # "IndexError"
     /\ pc \in HandlerPcs => pc = "chat"

\* C9: whenever the default arm runs, run_agent is called with "Chat" and the
\* prompt only, the response has route = route_name = "Chat" and content = the
\* chat output, and the appended entry has route = route_name = "Chat" and
\* AIOutput = the chat output.
C9_DefaultArmRecordsChat ==
  (pc = "done" /\ DispatchArm(RouteType(route)) = "chat") =>
    /\ \E i \in 1..Len(trace) : trace[i] = Ev("run_agent", <<S("Chat"), prompt>>)
    /\ response.route = CHAT
    /\ response.route_name = CHAT
    /\ response.content = S("chat-out")
    /\ Last(stored).route = CHAT
    /\ Last(stored).route_name = CHAT
    /\ Last(stored).AIOutput = response.content

\* C10: a call with agent_name = "default" classifies with the first agent
\* advertising ROUTE, takes the language-model id from that agent, and does not
\* fail for want of an agent literally named "default".
C10_DefaultResolvedForWholeDispatch ==
  (agent_name = "default" /\ GetAgentsByCapability(ROUTE) # <<>> /\ pc # "idle") =>
    /\ intent_agent = GetAgentsByCapability(ROUTE)[1]
    /\ error # "RuntimeError: cannot find model"
    /\ pc \in HandlerPcs =>
         llm_type \in {"llmX", AgentFindByName(GetAgentsByCapability(ROUTE)[1]).llm_type}

\* s occurs in t as a run of consecutive tokens
ContainsSeq(t, s) ==
  \E i \in 0..(Len(t) - Len(s)) : SubSeq(t, i + 1, i + Len(s)) = s

\* C11: the dispatch instruction given to the reasoning procedure contains the
\* two fixed capability lines, then one Query:<name> line per query engine,
\* then one Database:<name> line per dataset, in registry order.
C11_DispatchPromptListsRoutes ==
  (pc = "intent") =>
    ContainsSeq(agent_inputs.input,
                FixedIntentLines \o QueryEngineLines(AgentQueryEngines(intent_agent))
                                 \o DatasetLines(AgentDatasets(intent_agent)))

\* C12: the reasoning procedure gets the dispatch instruction followed by the
\* prompt as input, and the conversation's prior history as chat history.
C12_ExecutorGetsPriorHistory ==
  (pc = "intent" /\ Len(history) >= 1 /\ Len(stored) = Len(history)) =>
    /\ agent_inputs.input = GetDispatchPrompt(intent_agent) \o prompt
    /\ agent_inputs.chat_history = history

HandlerFns == {"query_generate", "run_db_agent", "agent_plan", "run_agent"}

HandlerEvents(t) == {i \in 1..Len(t) : t[i].fn \in HandlerFns}

\* C13: a call runs classify -> handler -> commit -> return: a handler is called
\* only once the classifier has returned, at most one handler is called in a
\* call and exactly one in a successful call, update_history immediately
\* followed by save comes only after that handler has returned, and a response
\* is returned only after save.
C13_LinearPipeline ==
  /\ Cardinality(HandlerEvents(trace)) <= 1
  /\ (pc = "done") => Cardinality(HandlerEvents(trace)) = 1
  /\ \A i \in HandlerEvents(trace) :
       /\ pc # "intent"
       /\ \E j \in 1..(i - 1) : trace[j].fn = "agent_executor"
  /\ \A i \in 1..Len(trace) :
       (trace[i].fn = "update_history") =>
         /\ \E j \in HandlerEvents(trace) : j < i
         /\ pc \notin HandlerPcs
         /\ error # "handler"
         /\ i < Len(trace)
         /\ trace[i + 1].fn = "save"
  /\ \A i \in 1..Len(trace) :
       (trace[i].fn = "save") => (i > 1 /\ trace[i - 1].fn = "update_history")
  /\ (pc = "done" \/ response # EmptyDict) =>
       /\ pc = "done"
       /\ response # EmptyDict
       /\ Called("save")
       /\ Len(stored) = Len(history)

C13_Witness ==
  /\ pc = "done"
  /\ Called("agent_plan")
  /\ Called("save")

\* C14: once update_history and save have run, the entry held in the history is
\* not modified by the rest of the call: at return the in-memory entry equals
\* the persisted entry.
C14_CommittedEntryNotRewritten ==
  (pc = "done") =>
    /\ Last(history) = Last(stored)
    /\ chat_history_entry = Last(stored)

\* the calls that returned a response, in the order they reached line 177
DoneOrder == SelectSeq(commit_order, LAMBDA c : tasks[c].pc = "done")

\* every call has ended, all of them ran concurrently from an empty history,
\* and the last commit on the conversation was persisted
ConcurrentRunEnded ==
  /\ \A c \in CallIds : tasks[c].pc \in {"done", "failed"}
  /\ \A c \in CallIds : tasks[c].chat_history = <<>>
  /\ stored = history

\* C15: under every interleaving of concurrent calls on one conversation object
\* no turn is lost or duplicated: the final history holds exactly one entry per
\* completed call, in the order in which the calls reached their commit step,
\* and the snapshot each call returns ends with that call's own entry.
C15_NoLostOrDuplicatedTurn ==
  ConcurrentRunEnded =>
    /\ Len(history) = Len(DoneOrder)
    /\ \A i \in 1..Len(DoneOrder) :
         i <= Len(history) =>
           StripChat(history[i]) = StripChat(tasks[DoneOrder[i]].entry)
    /\ \A c \in CallIds :
         (tasks[c].pc = "done") =>
           StripChat(Last(tasks[c].chat_data.history)) = StripChat(tasks[c].entry)

====
